---- MODULE Spec2Model ----
(***************************************************************************)
(* Model of src/server.py: the PostgreSQL -> KuzuDB migration script.      *)
(*                                                                         *)
(* The script is one sequential run: connect, reflect, load nodes          *)
(* (lines 55-81), load edges (83-114), verify (116-139), cleanup           *)
(* (141-144).  Any exception raised by a call ends the run at that line:   *)
(* the script has no try/except/finally.                                   *)
(*                                                                         *)
(* The relational source does not change during a run; primary-key and     *)
(* foreign-key values are integers (or null), the rows of a table have the *)
(* keys 1..n.  The graph store starts empty and behaves as KuzuDB does for *)
(* the statements the script sends: IF NOT EXISTS makes a creation a no-op,*)
(* a relationship table needs its two node tables, a primary key is unique *)
(* and non-null, a MATCH that finds nothing creates nothing.  Any call to  *)
(* the store or the source may also fail.                                  *)
(*                                                                         *)
(* Three specifications:                                                   *)
(*   Spec        the whole run over a reflected schema of two tables       *)
(*   SpecFormat  format_val (47-53) applied to one runtime value           *)
(*   SpecDDL     the DDL column loop (65-70) with infer_type (40-45)       *)
(***************************************************************************)
EXTENDS Integers, Sequences, FiniteSets, TLC

VARIABLES
    \* ---- relational source, as reflected (metadata / inspector)
    npk,          \* table name -> number of primary-key columns
    fks,          \* foreign keys of the schema: sequence of [child, parent]
    src,          \* table name -> primary-key values of the table's rows
    \* ---- control state of the script
    pc,           \* the line the run is at
    exc,          \* "none", or the exception that ended the run
    ni,           \* position of the node loop in metadata.tables (line 57)
    ei,           \* position of the edge loop in metadata.tables (line 86)
    rows,         \* rows fetched at line 75 and not yet inserted
    fkq,          \* foreign keys of the current table not yet handled (line 90)
    pairs,        \* pairs fetched at line 96 and not yet handled
    \* ---- graph store
    ntables,      \* node tables present
    nodes,        \* table name -> set of primary-key values of its nodes
    rtables,      \* relationship tables present: set of [name, src, dst]
    edges,        \* multiset of relationships: <<name, a, b>> -> copies
    \* ---- what the run has observed and issued
    issued,       \* store operations issued so far: set of <<kind, target>>
    skipped,      \* tables for which the node loop printed a skip warning
    nrows,        \* table name -> len(rows) printed at line 76, -1 before
    fetched,      \* fk index -> <<the pairs fetched at line 96>>, <<>> before
    node_tables,  \* line 118
    rel_tables,   \* line 125
    vq,           \* types whose count is still to be reported
    reported,     \* the counts printed at lines 133 and 139
    closed,       \* number of close() calls per resource
    \* ---- format_val harness
    fv_pc, fv_in, fv_out,
    \* ---- DDL harness
    ddl_pc, ddl_cols, ddl_defs

runVars == <<npk, fks, src, pc, exc, ni, ei, rows, fkq, pairs, ntables, nodes, rtables,
             edges, issued, skipped, nrows, fetched, node_tables, rel_tables, vq,
             reported, closed>>
fvVars == <<fv_pc, fv_in, fv_out>>
ddlVars == <<ddl_pc, ddl_cols, ddl_defs>>
vars == <<runVars, fvVars, ddlVars>>

(***************************************************************************)
(* Bounds                                                                  *)
(***************************************************************************)
MaxId == 1      \* primary-key values are 1..MaxId
MaxFks == 2     \* foreign keys in the reflected schema
MaxStrLen == 4  \* length of the strings given to format_val
MaxCols == 2    \* columns of the table given to the DDL loop

Tables == <<"t1", "t2">>
TableNames == {Tables[i] : i \in 1..Len(Tables)}
Ids == 1..MaxId

(***************************************************************************)
(* Runtime values, tagged by their Python type                             *)
(***************************************************************************)
None == [kind |-> "none"]
IntVal(n) == [kind |-> "int", v |-> n]
BoolVal(b) == [kind |-> "bool", b |-> b]
DateVal(iso) == [kind |-> "date", iso |-> iso]
StrVal(s) == [kind |-> "str", s |-> s]

QUOTE == "'"
BACKSLASH == "\\"

Digit == <<"0", "1", "2", "3", "4", "5", "6", "7", "8", "9">>

RECURSIVE StrNat(_)
StrNat(n) ==
    IF n < 10 THEN <<Digit[n + 1]>>
    ELSE StrNat(n \div 10) \o <<Digit[(n % 10) + 1]>>

StrInt(n) == IF n < 0 THEN <<"-">> \o StrNat(0 - n) ELSE StrNat(n)

\* str.replace("'", "\\'"): one left-to-right pass, every quote gets a backslash
RECURSIVE EscapeQuotes(_)
EscapeQuotes(s) ==
    IF s = <<>> THEN <<>>
    ELSE IF Head(s) = QUOTE THEN <<BACKSLASH, QUOTE>> \o EscapeQuotes(Tail(s))
    ELSE <<Head(s)>> \o EscapeQuotes(Tail(s))

Escaped(s) == EscapeQuotes(s)

format_val(val) ==
    IF val.kind = "none" THEN <<"n", "u", "l", "l">>
    ELSE IF val.kind = "bool"
        THEN (IF val.b THEN <<"t", "r", "u", "e">> ELSE <<"f", "a", "l", "s", "e">>)
    ELSE IF val.kind = "int" THEN StrInt(val.v)
    ELSE IF val.kind = "date" THEN <<QUOTE>> \o val.iso \o <<QUOTE>>
    ELSE <<QUOTE>> \o Escaped(val.s) \o <<QUOTE>>


(***************************************************************************)
(* The graph store, as the script uses it through conn.execute             *)
(***************************************************************************)
DigitValue(c) == CHOOSE d \in 0..9 : Digit[d + 1] = c
IsDigit(c) == \E d \in 0..9 : Digit[d + 1] = c

RECURSIVE ParseNat(_)
ParseNat(s) ==
    IF Len(s) = 1 THEN DigitValue(s[1])
    ELSE 10 * ParseNat(SubSeq(s, 1, Len(s) - 1)) + DigitValue(s[Len(s)])

\* the value the store reads from a literal in a statement
EvalLiteral(lit) ==
    IF lit = <<"n", "u", "l", "l">> THEN None
    ELSE IF lit # <<>> /\ \A k \in 1..Len(lit) : IsDigit(lit[k]) THEN IntVal(ParseNat(lit))
    ELSE [kind |-> "other"]

\* a comparison with null is never true
CypherEq(x, y) == x.kind # "none" /\ y.kind # "none" /\ x = y

\* CREATE (n:t {pk: lit}): the table must exist, the key must be non-null and new
CanCreateNode(t, lit) ==
    /\ t \in ntables
    /\ EvalLiteral(lit).kind = "int"
    /\ EvalLiteral(lit).v \notin nodes[t]

\* CREATE REL TABLE IF NOT EXISTS e (FROM p TO c): a no-op when e exists,
\* otherwise both endpoint node tables must exist
CanCreateRelTable(e, p, c) ==
    \/ \E m \in rtables : m.name = e
    \/ p \in ntables /\ c \in ntables

CreateRelTable(e, p, c) ==
    IF \E m \in rtables : m.name = e THEN rtables
    ELSE rtables \cup {[name |-> e, src |-> p, dst |-> c]}

\* MATCH (a:p), (b:c) WHERE a.pk = plit AND b.pk = clit CREATE (a)-[:e]->(b)
CanMatchCreate(e, p, c) ==
    /\ p \in ntables /\ c \in ntables
    /\ [name |-> e, src |-> p, dst |-> c] \in rtables

Matches(p, c, plit, clit) ==
    {ab \in nodes[p] \X nodes[c] :
        /\ CypherEq(IntVal(ab[1]), EvalLiteral(plit))
        /\ CypherEq(IntVal(ab[2]), EvalLiteral(clit))}

AddEdge(es, t) ==
    IF t \in DOMAIN es THEN [es EXCEPT ![t] = @ + 1] ELSE es @@ (t :> 1)

RECURSIVE AddEdges(_, _, _)
AddEdges(es, e, S) ==
    IF S = {} THEN es
    ELSE LET ab == CHOOSE x \in S : TRUE
         IN AddEdges(AddEdge(es, <<e, ab[1], ab[2]>>), e, S \ {ab})

RECURSIVE SumCopies(_, _)
SumCopies(es, D) ==
    IF D = {} THEN 0
    ELSE LET t == CHOOSE x \in D : TRUE IN es[t] + SumCopies(es, D \ {t})

\* MATCH (n:t) RETURN COUNT(n)
NodeCount(t) == Cardinality(nodes[t])
\* MATCH ()-[r:e]->() RETURN COUNT(r)
RelCount(e) == SumCopies(edges, {t \in DOMAIN edges : t[1] = e})

(***************************************************************************)
(* The run                                                                 *)
(***************************************************************************)
\* primary-key columns of a table: none, one, composite
PkCounts == {0, 1, 2}
\* the rows of a table have the primary-key values 1..n
RowSets == {1..n : n \in 0..MaxId}
Unfetched == <<>>

FkSeqs == UNION {[1..n -> [child : TableNames, parent : TableNames]] : n \in 0..MaxFks}

\* line 96: select(fk_col, tbl.c[child_pk]): one pair per row of the child table,
\* the foreign-key column holding null or a key value
PairSets(t) ==
    {{<<f[c], IntVal(c)>> : c \in src[t]} :
        f \in [src[t] -> {None} \cup {IntVal(x) : x \in Ids}]}

edge_name(parent, name) == parent \o "_" \o name \o "_edge"

\* line 60: len(pk_cols) != 1
AnyPk(t) == npk[t] >= 1
\* variant of line 60 that lets composite keys through (len(pk_cols) < 1)
SinglePkOrComposite(t) == npk[t] >= 1
SinglePk(t) == npk[t] = 1

\* line 57 / 86: the loops over metadata.tables.items()
\* variant of line 57 whose loop ends after the first table
NodeLoopDoneAfterFirst == ni > 1
NodeLoopDone == ni > Len(Tables)
EdgeLoopDone == ei > Len(Tables)

\* line 90: inspector.get_foreign_keys(name, schema=schema)
RECURSIVE FkIndexes(_, _)
FkIndexes(t, i) ==
    IF i > Len(fks) THEN <<>>
    ELSE (IF fks[i].child = t THEN <<i>> ELSE <<>>) \o FkIndexes(t, i + 1)
get_foreign_keys(t) == FkIndexes(t, 1)

\* line 97: if not pairs
\* variant of line 97 without the empty-pairs skip
NeverEmpty(ps) == FALSE
NoPairs(ps) == ps = {}

RunOff ==
    /\ npk = [t \in TableNames |-> 1] /\ fks = <<>> /\ fetched = <<>>
    /\ src = [t \in TableNames |-> {}]
    /\ pc = "off" /\ exc = "none" /\ ni = 1 /\ ei = 1
    /\ rows = {} /\ fkq = <<>> /\ pairs = {}
    /\ ntables = {} /\ nodes = [t \in TableNames |-> {}]
    /\ rtables = {} /\ edges = <<>>
    /\ issued = {} /\ skipped = {}
    /\ nrows = [t \in TableNames |-> -1]
    /\ node_tables = {} /\ rel_tables = {} /\ vq = {} /\ reported = {}
    /\ closed = [session |-> 0, connection |-> 0, conn |-> 0]

InitOff ==
    /\ fv_pc = "off" /\ fv_in = None /\ fv_out = <<>>
    /\ ddl_pc = "off" /\ ddl_cols = <<>> /\ ddl_defs = <<>>

RunIdle ==
    /\ pc = "node_loop" /\ exc = "none" /\ ni = 1 /\ ei = 1
    /\ rows = {} /\ fkq = <<>> /\ pairs = {}
    /\ ntables = {} /\ nodes = [t \in TableNames |-> {}]
    /\ rtables = {} /\ edges = <<>>
    /\ issued = {} /\ skipped = {}
    /\ nrows = [t \in TableNames |-> -1]
    /\ node_tables = {} /\ rel_tables = {} /\ vq = {} /\ reported = {}
    /\ closed = [session |-> 0, connection |-> 0, conn |-> 0]

Init ==
    /\ npk \in [TableNames -> PkCounts]
    /\ fks \in FkSeqs
    /\ src \in [TableNames -> RowSets]
    /\ fetched = [i \in 1..Len(fks) |-> Unfetched]
    /\ RunIdle
    /\ InitOff

schemaVars == <<npk, fks, src>>
storeVars == <<ntables, nodes, rtables, edges>>
verifyVars == <<node_tables, rel_tables, vq, reported>>
harnessVars == <<fvVars, ddlVars>>

Running == exc = "none"

\* ---- 4) Bulk-load nodes (lines 55-81)
NodeSkip ==
    /\ Running /\ pc = "node_loop" /\ ~NodeLoopDone
    /\ ~SinglePk(Tables[ni])
    /\ skipped' = skipped \cup {Tables[ni]}
    /\ ni' = ni + 1
    /\ UNCHANGED <<schemaVars, pc, exc, ei, rows, fkq, pairs, storeVars, issued,
                   nrows, fetched, verifyVars, closed, harnessVars>>

NodeCreateTable ==
    /\ Running /\ pc = "node_loop" /\ ~NodeLoopDone
    /\ SinglePk(Tables[ni])
    /\ issued' = issued \cup {<<"CREATE NODE TABLE", Tables[ni]>>}
    /\ \E ok \in BOOLEAN :
        IF ok
        THEN /\ ntables' = ntables \cup {Tables[ni]}
             /\ pc' = "node_fetch"
             /\ exc' = exc
        ELSE /\ exc' = "StoreError"
             /\ UNCHANGED <<ntables, pc>>
    /\ UNCHANGED <<schemaVars, ni, ei, rows, fkq, pairs, nodes, rtables, edges, skipped,
                   nrows, fetched, verifyVars, closed, harnessVars>>

NodeFetchRows ==
    /\ Running /\ pc = "node_fetch"
    /\ \/ /\ rows' = src[Tables[ni]]
          /\ nrows' = [nrows EXCEPT ![Tables[ni]] = Cardinality(src[Tables[ni]])]
          /\ pc' = "node_rows"
          /\ exc' = exc
       \/ /\ exc' = "SourceError"
          /\ UNCHANGED <<rows, nrows, pc>>
    /\ UNCHANGED <<schemaVars, ni, ei, fkq, pairs, storeVars, issued, skipped,
                   fetched, verifyVars, closed, harnessVars>>

\* variant of lines 77-80 in which a row's statement is never executed
NodeInsertRowNotExecuted ==
    /\ Running /\ pc = "node_rows" /\ rows # {}
    /\ \E r \in rows : rows' = rows \ {r}
    /\ UNCHANGED <<schemaVars, pc, exc, ni, ei, fkq, pairs, storeVars, issued, skipped,
                   nrows, fetched, verifyVars, closed, harnessVars>>

\* lines 77-80
NodeInsertRow ==
    /\ Running /\ pc = "node_rows" /\ rows # {}
    /\ issued' = issued \cup {<<"CREATE NODE", Tables[ni]>>}
    /\ \E r \in rows, ok \in BOOLEAN :
        LET lit == format_val(IntVal(r)) IN
        IF ok /\ CanCreateNode(Tables[ni], lit)
        THEN /\ nodes' = [nodes EXCEPT ![Tables[ni]] = @ \cup {EvalLiteral(lit).v}]
             /\ rows' = rows \ {r}
             /\ exc' = exc
        ELSE /\ exc' = "StoreError"
             /\ UNCHANGED <<nodes, rows>>
    /\ UNCHANGED <<schemaVars, pc, ni, ei, fkq, pairs, ntables, rtables, edges, skipped,
                   nrows, fetched, verifyVars, closed, harnessVars>>

NodeTableDone ==
    /\ Running /\ pc = "node_rows" /\ rows = {}
    /\ ni' = ni + 1
    /\ pc' = "node_loop"
    /\ UNCHANGED <<schemaVars, exc, ei, rows, fkq, pairs, storeVars, issued, skipped,
                   nrows, fetched, verifyVars, closed, harnessVars>>

NodeLoopExit ==
    /\ Running /\ pc = "node_loop" /\ NodeLoopDone
    /\ pc' = "edge_loop"
    /\ UNCHANGED <<schemaVars, exc, ni, ei, rows, fkq, pairs, storeVars, issued, skipped,
                   nrows, fetched, verifyVars, closed, harnessVars>>

\* ---- 5) Bulk-load edges (lines 83-114)
\* line 89: [c.name for c in tbl.columns if c.primary_key][0]
EdgeTablePk ==
    /\ Running /\ pc = "edge_loop" /\ ~EdgeLoopDone
    /\ IF AnyPk(Tables[ei])
       THEN /\ fkq' = get_foreign_keys(Tables[ei])
            /\ pc' = "edge_fks"
            /\ exc' = exc
       ELSE /\ exc' = "IndexError"
            /\ UNCHANGED <<fkq, pc>>
    /\ UNCHANGED <<schemaVars, ni, ei, rows, pairs, storeVars, issued, skipped,
                   nrows, fetched, verifyVars, closed, harnessVars>>

\* lines 90-98: the next foreign key, its pairs, and the empty-pairs skip
EdgeFetchPairs ==
    /\ Running /\ pc = "edge_fks" /\ fkq # <<>>
    /\ \/ \E ps \in PairSets(Tables[ei]) :
            /\ fetched' = [fetched EXCEPT ![Head(fkq)] = <<ps>>]
            /\ exc' = exc
            /\ IF NoPairs(ps)
               THEN /\ fkq' = Tail(fkq)
                    /\ UNCHANGED <<pairs, pc>>
               ELSE /\ pairs' = ps
                    /\ pc' = "edge_create"
                    /\ fkq' = fkq
       \/ /\ exc' = "SourceError"
          /\ UNCHANGED <<fetched, fkq, pairs, pc>>
    /\ UNCHANGED <<schemaVars, ni, ei, rows, storeVars, issued, skipped,
                   nrows, verifyVars, closed, harnessVars>>

\* lines 100-104
EdgeCreateRelTable ==
    /\ Running /\ pc = "edge_create"
    /\ LET fk == fks[Head(fkq)]
           edge == edge_name(fk.parent, fk.child)
       IN /\ issued' = issued \cup {<<"CREATE REL TABLE", Head(fkq)>>}
          /\ \E ok \in BOOLEAN :
                IF ok /\ CanCreateRelTable(edge, fk.parent, fk.child)
                THEN /\ rtables' = CreateRelTable(edge, fk.parent, fk.child)
                     /\ pc' = "edge_pairs"
                     /\ exc' = exc
                ELSE /\ exc' = "StoreError"
                     /\ UNCHANGED <<rtables, pc>>
    /\ UNCHANGED <<schemaVars, ni, ei, rows, fkq, pairs, ntables, nodes, edges, skipped,
                   nrows, fetched, verifyVars, closed, harnessVars>>

\* lines 106-113
EdgeInsertPair ==
    /\ Running /\ pc = "edge_pairs" /\ pairs # {}
    /\ LET fk == fks[Head(fkq)]
           edge == edge_name(fk.parent, fk.child)
       IN /\ issued' = issued \cup {<<"MATCH CREATE", Head(fkq)>>}
          /\ \E pr \in pairs, ok \in BOOLEAN :
                IF ok /\ CanMatchCreate(edge, fk.parent, fk.child)
                THEN /\ edges' = AddEdges(edges, edge,
                                          Matches(fk.parent, fk.child,
                                                  format_val(pr[1]), format_val(pr[2])))
                     /\ pairs' = pairs \ {pr}
                     /\ exc' = exc
                ELSE /\ exc' = "StoreError"
                     /\ UNCHANGED <<edges, pairs>>
    /\ UNCHANGED <<schemaVars, pc, ni, ei, rows, fkq, ntables, nodes, rtables, skipped,
                   nrows, fetched, verifyVars, closed, harnessVars>>

\* line 114, then back to line 90
EdgeFkDone ==
    /\ Running /\ pc = "edge_pairs" /\ pairs = {}
    /\ fkq' = Tail(fkq)
    /\ pc' = "edge_fks"
    /\ UNCHANGED <<schemaVars, exc, ni, ei, rows, pairs, storeVars, issued, skipped,
                   nrows, fetched, verifyVars, closed, harnessVars>>

EdgeTableDone ==
    /\ Running /\ pc = "edge_fks" /\ fkq = <<>>
    /\ ei' = ei + 1
    /\ pc' = "edge_loop"
    /\ UNCHANGED <<schemaVars, exc, ni, rows, fkq, pairs, storeVars, issued, skipped,
                   nrows, fetched, verifyVars, closed, harnessVars>>

EdgeLoopExit ==
    /\ Running /\ pc = "edge_loop" /\ EdgeLoopDone
    /\ pc' = "verify"
    /\ UNCHANGED <<schemaVars, exc, ni, ei, rows, fkq, pairs, storeVars, issued, skipped,
                   nrows, fetched, verifyVars, closed, harnessVars>>

\* ---- 6) Verify (lines 116-139)
VerifyList ==
    /\ Running /\ pc = "verify"
    /\ node_tables' = ntables
    /\ rel_tables' = {m.name : m \in rtables}
    /\ vq' = ntables
    /\ pc' = "count_nodes"
    /\ UNCHANGED <<schemaVars, exc, ni, ei, rows, fkq, pairs, storeVars, issued, skipped,
                   nrows, fetched, reported, closed, harnessVars>>

CountNodes ==
    /\ Running /\ pc = "count_nodes" /\ vq # {}
    /\ \E t \in vq, ok \in BOOLEAN :
        IF ok
        THEN /\ reported' = reported \cup {<<t, NodeCount(t)>>}
             /\ vq' = vq \ {t}
             /\ exc' = exc
        ELSE /\ exc' = "StoreError"
             /\ UNCHANGED <<reported, vq>>
    /\ UNCHANGED <<schemaVars, pc, ni, ei, rows, fkq, pairs, storeVars, issued, skipped,
                   nrows, fetched, node_tables, rel_tables, closed, harnessVars>>

CountNodesDone ==
    /\ Running /\ pc = "count_nodes" /\ vq = {}
    /\ vq' = rel_tables
    /\ pc' = "count_rels"
    /\ UNCHANGED <<schemaVars, exc, ni, ei, rows, fkq, pairs, storeVars, issued, skipped,
                   nrows, fetched, node_tables, rel_tables, reported, closed, harnessVars>>

CountRels ==
    /\ Running /\ pc = "count_rels" /\ vq # {}
    /\ \E e \in vq, ok \in BOOLEAN :
        IF ok
        THEN /\ reported' = reported \cup {<<e, RelCount(e)>>}
             /\ vq' = vq \ {e}
             /\ exc' = exc
        ELSE /\ exc' = "StoreError"
             /\ UNCHANGED <<reported, vq>>
    /\ UNCHANGED <<schemaVars, pc, ni, ei, rows, fkq, pairs, storeVars, issued, skipped,
                   nrows, fetched, node_tables, rel_tables, closed, harnessVars>>

CountRelsDone ==
    /\ Running /\ pc = "count_rels" /\ vq = {}
    /\ pc' = "close_session"
    /\ UNCHANGED <<schemaVars, exc, ni, ei, rows, fkq, pairs, storeVars, issued, skipped,
                   nrows, fetched, verifyVars, closed, harnessVars>>

\* ---- 7) Cleanup (lines 141-144)
SessionClose ==
    /\ Running /\ pc = "close_session"
    /\ closed' = [closed EXCEPT !.session = @ + 1]
    /\ pc' = "close_connection"
    /\ UNCHANGED <<schemaVars, exc, ni, ei, rows, fkq, pairs, storeVars, issued, skipped,
                   nrows, fetched, verifyVars, harnessVars>>

ConnectionClose ==
    /\ Running /\ pc = "close_connection"
    /\ closed' = [closed EXCEPT !.connection = @ + 1]
    /\ pc' = "close_conn"
    /\ UNCHANGED <<schemaVars, exc, ni, ei, rows, fkq, pairs, storeVars, issued, skipped,
                   nrows, fetched, verifyVars, harnessVars>>

ConnClose ==
    /\ Running /\ pc = "close_conn"
    /\ closed' = [closed EXCEPT !.conn = @ + 1]
    /\ pc' = "done"
    /\ UNCHANGED <<schemaVars, exc, ni, ei, rows, fkq, pairs, storeVars, issued, skipped,
                   nrows, fetched, verifyVars, harnessVars>>

Next ==
    \/ NodeSkip \/ NodeCreateTable \/ NodeFetchRows \/ NodeInsertRow
    \/ NodeTableDone \/ NodeLoopExit
    \/ EdgeTablePk \/ EdgeFetchPairs \/ EdgeCreateRelTable \/ EdgeInsertPair
    \/ EdgeFkDone \/ EdgeTableDone \/ EdgeLoopExit
    \/ VerifyList \/ CountNodes \/ CountNodesDone \/ CountRels \/ CountRelsDone
    \/ SessionClose \/ ConnectionClose \/ ConnClose

Spec == Init /\ [][Next]_vars

\* the run has ended: by falling off the end of the script, or by an exception
Terminated == pc = "done" \/ exc # "none"
Completed == pc = "done" /\ exc = "none"

(***************************************************************************)
(* Properties of the run                                                   *)
(***************************************************************************)
EdgeOps == {op \in issued : op[1] \in {"CREATE REL TABLE", "MATCH CREATE"}}
NodeOps == {op \in issued : op[1] \in {"CREATE NODE TABLE", "CREATE NODE"}}
AfterEdgePhase ==
    pc \in {"verify", "count_nodes", "count_rels", "close_session",
            "close_connection", "close_conn", "done"}
NodeCountsReported ==
    pc \in {"count_rels", "close_session", "close_connection", "close_conn", "done"}

\* C1: an edge operation (create relationship type, MATCH/CREATE) is issued only
\* once the node loop has gone through all reflected tables: every qualifying
\* table's node type was created and every fetched row of it was inserted.
C1_NodesBeforeEdges ==
    EdgeOps # {} =>
        /\ ni > Len(Tables)
        /\ rows = {}
        /\ \A t \in TableNames :
              npk[t] = 1 =>
                /\ <<"CREATE NODE TABLE", t>> \in issued
                /\ nrows[t] >= 0
                /\ NodeCount(t) = nrows[t]

C1_Witness ==
    /\ \E i \in 1..Len(fks) : <<"MATCH CREATE", i>> \in issued
    /\ \A t \in TableNames : nodes[t] # {}

\* C2: a table whose primary-key column count is not one never ends the run:
\* the only exceptions that end a run are store and source errors.
C2_PkShapeNeverFatal == exc \in {"none", "StoreError", "SourceError"}

\* C3: for a foreign key whose parent table has no single primary key (and so
\* was skipped by the node loop) no create-relationship-type and no MATCH/CREATE
\* operation is ever issued.
C3_NoEdgeOpsForSkippedParent ==
    \A i \in 1..Len(fks) :
        npk[fks[i].parent] # 1 =>
            /\ <<"CREATE REL TABLE", i>> \notin issued
            /\ <<"MATCH CREATE", i>> \notin issued

\* C4: whenever the run has ended, normally or by an exception, session.close,
\* connection.close and conn.close have each been performed exactly once.
C4_ReleasedOnEveryExit ==
    Terminated => closed = [session |-> 1, connection |-> 1, conn |-> 1]

\* the fetched pairs of foreign key i whose both endpoints exist as nodes
MatchingPairs(i) ==
    {pr \in fetched[i][1] :
        /\ pr[1].kind = "int" /\ pr[1].v \in nodes[fks[i].parent]
        /\ pr[2].kind = "int" /\ pr[2].v \in nodes[fks[i].child]}

\* C5: after a completed run, for every foreign key from C to P the number of
\* relationships of type P_C_edge equals the number of its fetched pairs whose
\* parent and child identifiers both match existing nodes.
C5_EdgeCountPerForeignKey ==
    Completed =>
        \A i \in 1..Len(fks) :
            /\ fetched[i] # Unfetched
            /\ RelCount(edge_name(fks[i].parent, fks[i].child))
                   = Cardinality(MatchingPairs(i))

\* C6: for a table whose primary-key column count is not one, no create-node-type
\* and no node-creation operation is issued, and the Verifier's enumeration of
\* node types and its reported counts do not name the table.
C6_SkippedTableNeverLoaded ==
    \A t \in TableNames :
        npk[t] # 1 =>
            /\ <<"CREATE NODE TABLE", t>> \notin issued
            /\ <<"CREATE NODE", t>> \notin issued
            /\ t \notin ntables
            /\ t \notin node_tables
            /\ \A r \in reported : r[1] # t

C6_Witness ==
    /\ Completed
    /\ \E t \in TableNames : npk[t] > 1 /\ t \in skipped
    /\ \E t \in TableNames : t \in node_tables /\ <<t, MaxId>> \in reported

C8_NoEmptyRelationshipType ==
    /\ \A i \in 1..Len(fks) :
          <<"CREATE REL TABLE", i>> \in issued =>
              fetched[i] # Unfetched /\ fetched[i][1] # {}
    /\ AfterEdgePhase => \A m \in rtables : RelCount(m.name) >= 1

\* C8 as amended: the create-relationship-type operation is issued for a foreign
\* key only when its fetched pair set is non-empty, so every relationship type in
\* the store comes from a foreign key with at least one fetched pair (it may still
\* hold no instance when no pair matches).
C8_RelTypeOnlyForFetchedPairs ==
    /\ \A i \in 1..Len(fks) :
          <<"CREATE REL TABLE", i>> \in issued =>
              fetched[i] # Unfetched /\ fetched[i][1] # {}
    /\ \A m \in rtables :
          \E i \in 1..Len(fks) :
              /\ edge_name(fks[i].parent, fks[i].child) = m.name
              /\ m.src = fks[i].parent /\ m.dst = fks[i].child
              /\ fetched[i] # Unfetched /\ fetched[i][1] # {}

C8_Witness ==
    /\ Completed
    /\ \E i \in 1..Len(fks) : fetched[i] = <<{}>>
    /\ \E m \in rtables : RelCount(m.name) >= 1

(***************************************************************************)
(* format_val on one value (lines 47-53)                                   *)
(***************************************************************************)
Alphabet == {QUOTE, BACKSLASH, "a"}
Strings == UNION {[1..n -> Alphabet] : n \in 0..MaxStrLen}
IsoDate == <<"2", "0", "2", "0", "-", "0", "1", "-", "0", "1">>

FormatInputs ==
    {None, BoolVal(TRUE), BoolVal(FALSE), DateVal(IsoDate)}
        \cup {IntVal(n) : n \in -1..11}
        \cup {StrVal(s) : s \in Strings}

InitFormat ==
    /\ fv_pc = "call" /\ fv_in \in FormatInputs /\ fv_out = <<>>
    /\ ddl_pc = "off" /\ ddl_cols = <<>> /\ ddl_defs = <<>>
    /\ RunOff

FormatVal ==
    /\ fv_pc = "call"
    /\ fv_out' = format_val(fv_in)
    /\ fv_pc' = "return"
    /\ UNCHANGED <<fv_in, runVars, ddlVars>>

NextFormat == FormatVal

SpecFormat == InitFormat /\ [][NextFormat]_vars

\* the position of the first quote of lit at or after k that no backslash escapes
\* (a backslash escapes the character after it), 0 when there is none
RECURSIVE FirstTerminator(_, _)
FirstTerminator(lit, k) ==
    IF k > Len(lit) THEN 0
    ELSE IF lit[k] = BACKSLASH THEN FirstTerminator(lit, k + 2)
    ELSE IF lit[k] = QUOTE THEN k
    ELSE FirstTerminator(lit, k + 1)

IsClosedLiteral(lit) ==
    /\ lit # <<>>
    /\ IF lit[1] = QUOTE
       THEN Len(lit) >= 2 /\ FirstTerminator(lit, 2) = Len(lit)
       ELSE \A k \in 1..Len(lit) : lit[k] # QUOTE

\* C9: format_val returns a closed literal for every value: a quoted result ends
\* at its last character, which is the only quote no backslash escapes.
C9_ClosedLiteral == fv_pc = "return" => IsClosedLiteral(fv_out)

(***************************************************************************)
(* The DDL column loop (lines 65-70) and infer_type (lines 40-45)          *)
(***************************************************************************)
\* the class each SQLAlchemy type derives from
TypeBase ==
    [INTEGER |-> "Integer", BIGINT |-> "BigInteger", SMALLINT |-> "SmallInteger",
     BigInteger |-> "Integer", SmallInteger |-> "Integer", Integer |-> "TypeEngine",
     NUMERIC |-> "Numeric", Numeric |-> "TypeEngine", Float |-> "Numeric",
     FLOAT |-> "Float", REAL |-> "Float", Double |-> "Float",
     DOUBLE_PRECISION |-> "Double",
     TIMESTAMP |-> "DateTime", DateTime |-> "TypeEngine",
     DATE |-> "Date", Date |-> "TypeEngine",
     TIME |-> "Time", Time |-> "TypeEngine",
     VARCHAR |-> "String", TEXT |-> "Text", Text |-> "String", String |-> "TypeEngine",
     BOOLEAN |-> "Boolean", Boolean |-> "TypeEngine"]

\* the column types PostgreSQL reflection yields
DeclaredTypes ==
    {"INTEGER", "BIGINT", "SMALLINT", "NUMERIC", "FLOAT", "REAL", "DOUBLE_PRECISION",
     "TIMESTAMP", "DATE", "TIME", "VARCHAR", "TEXT", "BOOLEAN"}

RECURSIVE IsInstance(_, _)
IsInstance(ty, cls) ==
    \/ ty = cls
    \/ ty \in DOMAIN TypeBase /\ IsInstance(TypeBase[ty], cls)

infer_type(ty) ==
    IF IsInstance(ty, "Integer") THEN "INT"
    ELSE IF IsInstance(ty, "Float") THEN "DOUBLE"
    ELSE IF IsInstance(ty, "DateTime") THEN "TIMESTAMP"
    ELSE "STRING"

\* tables the node loop builds a DDL for: exactly one primary-key column
ColumnSeqs ==
    {cs \in UNION {[1..n -> [type : DeclaredTypes, primary_key : BOOLEAN]] : n \in 1..MaxCols} :
        Cardinality({k \in 1..Len(cs) : cs[k].primary_key}) = 1}

InitDDL ==
    /\ ddl_pc = "columns" /\ ddl_cols \in ColumnSeqs /\ ddl_defs = <<>>
    /\ fv_pc = "off" /\ fv_in = None /\ fv_out = <<>>
    /\ RunOff

\* lines 66-70
DdlColumn ==
    /\ ddl_pc = "columns" /\ Len(ddl_defs) < Len(ddl_cols)
    /\ LET col == ddl_cols[Len(ddl_defs) + 1]
       IN ddl_defs' = Append(ddl_defs,
                             [type |-> infer_type(col.type), pk |-> col.primary_key])
    /\ UNCHANGED <<ddl_pc, ddl_cols, runVars, fvVars>>

\* line 71: the statement is built from defs
DdlJoin ==
    /\ ddl_pc = "columns" /\ Len(ddl_defs) = Len(ddl_cols)
    /\ ddl_pc' = "execute"
    /\ UNCHANGED <<ddl_cols, ddl_defs, runVars, fvVars>>

NextDDL == DdlColumn \/ DdlJoin

SpecDDL == InitDDL /\ [][NextDDL]_vars

IntegerFamily == {"INTEGER", "BIGINT", "SMALLINT"}
FloatDecimalFamily == {"NUMERIC", "FLOAT", "REAL", "DOUBLE_PRECISION"}
DateTimeFamily == {"TIMESTAMP", "DATE", "TIME"}

\* the primitive type the policy gives a declared type; the script spells
\* INTEGER as INT
PolicyType(ty) ==
    IF ty \in IntegerFamily THEN "INT"
    ELSE IF ty \in FloatDecimalFamily THEN "DOUBLE"
    ELSE IF ty \in DateTimeFamily THEN "TIMESTAMP"
    ELSE "STRING"

\* C10: every column gets one of the four primitive types: integer-family types
\* INTEGER, floating-point and decimal types DOUBLE, date/time types TIMESTAMP,
\* and only the remaining types STRING.
C10_TypePolicy ==
    \A k \in 1..Len(ddl_defs) :
        /\ ddl_defs[k].type \in {"INT", "DOUBLE", "TIMESTAMP", "STRING"}
        /\ ddl_defs[k].type = PolicyType(ddl_cols[k].type)

====
